---- MODULE Spec2Model ----
(***************************************************************************)
(* Model of the CNF simulator HTTP service (Deann7/cnf-app-repo).          *)
(*                                                                         *)
(* The repository holds three revisions of the same single-file server:    *)
(*   "v1"  src/main.go                       (health/status/config/info)   *)
(*   "v2"  src/unnamed/part_001 lines 1-247  (+ security, quality, masking)*)
(*   "v3"  src/unnamed/part_001 lines 248-607 (+ ready, scan, thresholds)  *)
(* The variable `variant` fixes which of them the process runs.            *)
(*                                                                         *)
(* net/http serves every request on its own goroutine, so the handlers     *)
(* interleave at the granularity of their accesses to the global           *)
(* cnfStatus; each access is one step of the worker serving the request.   *)
(* Strings that the code inspects (environment keys, the value of          *)
(* MAX_VULNERABILITIES) are sequences of one-character strings.            *)
(***************************************************************************)
EXTENDS Integers, Sequences, FiniteSets, TLC

----------------------------------------------------------------------------
(* Bounds *)

\* number of requests that can be in flight at the same time
NumWorkers == 2
\* the clock stops advancing after this many ticks
MaxClock == 2
\* clock ticks that init() may take between its reads of time.Now()
MaxInitSkew == 1
\* environment variables set at once in the serial specification
MaxEnvVars == 2

\* clock resolution: ticks per second (time.Time has sub-second resolution,
\* RFC3339 and Unix() have second resolution)
TicksPerSec == 2

Workers == 1..NumWorkers

----------------------------------------------------------------------------
(* Strings *)

LowerLetters == <<"a","b","c","d","e","f","g","h","i","j","k","l","m",
                  "n","o","p","q","r","s","t","u","v","w","x","y","z">>
UpperLetters == <<"A","B","C","D","E","F","G","H","I","J","K","L","M",
                  "N","O","P","Q","R","S","T","U","V","W","X","Y","Z">>

ToUpperChar(c) ==
    IF \E i \in 1..Len(LowerLetters) : LowerLetters[i] = c
    THEN UpperLetters[CHOOSE i \in 1..Len(LowerLetters) : LowerLetters[i] = c]
    ELSE c

\* strings.ToUpper
ToUpper(s) == [i \in 1..Len(s) |-> ToUpperChar(s[i])]

\* strings.Contains
Contains(s, sub) ==
    \E i \in 1..(Len(s) - Len(sub) + 1) : SubSeq(s, i, i + Len(sub) - 1) = sub

\* strings.HasPrefix
HasPrefix(s, prefix) ==
    Len(s) >= Len(prefix) /\ SubSeq(s, 1, Len(prefix)) = prefix

Digits == <<"0","1","2","3","4","5","6","7","8","9">>
IsDigit(c) == \E i \in 1..10 : Digits[i] = c
DigitVal(c) == (CHOOSE i \in 1..10 : Digits[i] = c) - 1

RECURSIVE DecimalValue(_)
DecimalValue(s) ==
    IF Len(s) = 0 THEN 0
    ELSE 10 * DecimalValue(SubSeq(s, 1, Len(s) - 1)) + DigitVal(s[Len(s)])

\* strconv.Atoi: optional sign, then one or more decimal digits; anything
\* else is an error.  (Values here are too short to overflow int.)
Atoi(s) ==
    LET signed == Len(s) > 0 /\ s[1] \in {"+", "-"}
        digits == IF signed THEN SubSeq(s, 2, Len(s)) ELSE s
    IN  IF Len(digits) = 0 \/ \E i \in 1..Len(digits) : ~IsDigit(digits[i])
        THEN [err |-> TRUE, val |-> 0]
        ELSE [err |-> FALSE,
              val |-> IF signed /\ s[1] = "-" THEN 0 - DecimalValue(digits)
                      ELSE DecimalValue(digits)]

----------------------------------------------------------------------------
(* Environment *)

PORT                    == <<"P","O","R","T">>
ENVIRONMENT             == <<"E","N","V","I","R","O","N","M","E","N","T">>
KUBERNETES_NODE_NAME    == <<"K","U","B","E","R","N","E","T","E","S","_",
                             "N","O","D","E","_","N","A","M","E">>
SECURITY_SCAN_ENABLED   == <<"S","E","C","U","R","I","T","Y","_","S","C","A","N",
                             "_","E","N","A","B","L","E","D">>
MINIMUM_SECURITY_RATING == <<"M","I","N","I","M","U","M","_","S","E","C","U","R",
                             "I","T","Y","_","R","A","T","I","N","G">>
MAX_VULNERABILITIES     == <<"M","A","X","_","V","U","L","N","E","R","A","B","I",
                             "L","I","T","I","E","S">>

\* keys of the variables that the process may be started with besides the
\* named ones: prefixed and unprefixed, sensitive and not, in both cases
APP_NAME    == <<"A","P","P","_","N","A","M","E">>
APP_SECRET  == <<"A","P","P","_","S","E","C","R","E","T">>
CNF_api_key == <<"C","N","F","_","a","p","i","_","k","e","y">>
CNF_AUTHOR  == <<"C","N","F","_","A","U","T","H","O","R">>
DB_PASSWORD == <<"D","B","_","P","A","S","S","W","O","R","D">>
app_mode    == <<"a","p","p","_","m","o","d","e">>

EchoKeys == {APP_NAME, APP_SECRET, CNF_api_key, CNF_AUTHOR, DB_PASSWORD, app_mode}

\* values of those variables
EchoValues == {<<"a">>, <<"b">>}

\* values MAX_VULNERABILITIES may be set to
MaxVulnValues == {<<>>, <<"a","b","c">>, <<"2">>, <<"3">>, <<"5">>,
                  <<"-","1">>, <<"+","3">>, <<"1","0">>}

\* values MINIMUM_SECURITY_RATING may be set to
MinRatingValues == {<<>>, <<"A">>, <<"C">>, <<"B","+">>}

\* os.Getenv: the value, or the empty string when the variable is not set
Getenv(e, key) == IF key \in DOMAIN e THEN e[key] ELSE <<>>

\* byte order of the characters that occur in ratings, as Go compares strings
CharOrder == <<"+", "-">> \o Digits \o UpperLetters \o LowerLetters
CharCode(c) == CHOOSE i \in 1..Len(CharOrder) : CharOrder[i] = c

\* a > b on Go strings: bytewise lexicographic order
RECURSIVE StringGreater(_, _)
StringGreater(a, b) ==
    IF Len(a) = 0 THEN FALSE
    ELSE IF Len(b) = 0 THEN TRUE
    ELSE IF a[1] # b[1] THEN CharCode(a[1]) > CharCode(b[1])
    ELSE StringGreater(Tail(a), Tail(b))

----------------------------------------------------------------------------
(* Time *)

\* Time.Format(time.RFC3339) and Time.Unix(): the time cut down to seconds
Format(t) == t \div TicksPerSec
Unix(t) == t \div TicksPerSec

\* the operands of the subtraction exchanged
UptimeSecondsSwapped(t, startedAt) == (startedAt - t) \div TicksPerSec

\* int(time.Since(startedAt).Seconds())
UptimeSeconds(t, startedAt) == (t - startedAt) \div TicksPerSec

----------------------------------------------------------------------------
(* Masking *)

sensitiveKeys == << <<"P","A","S","S","W","O","R","D">>,
                    <<"S","E","C","R","E","T">>,
                    <<"T","O","K","E","N">>,
                    <<"K","E","Y">>,
                    <<"A","U","T","H">> >>

\* fmt.Sprintf("%x", sha256.Sum256([]byte(value))[:8])
sha256Prefix(value) ==
    CASE value = <<"a">> -> "ca978112ca1bbdca"
      [] value = <<"b">> -> "3e23e8160039594a"
      [] value = <<>>    -> "e3b0c44298fc1c14"

\* the key hashed along with the value
maskSensitiveDataSalted(key, value) ==
    IF \E i \in 1..Len(sensitiveKeys) : Contains(ToUpper(key), sensitiveKeys[i])
    THEN <<"[MASKED:", sha256Prefix(value), key, "]">>
    ELSE value

maskSensitiveData(key, value) ==
    IF \E i \in 1..Len(sensitiveKeys) : Contains(ToUpper(key), sensitiveKeys[i])
    THEN <<"[MASKED:", sha256Prefix(value), "]">>
    ELSE value

----------------------------------------------------------------------------
(* State *)

VARIABLES
    variant,     \* which revision of the server the process runs
    env,         \* the process environment: key -> value, fixed at start
    now,         \* the clock, in ticks
    cnfStatus,   \* the global record
    pc,          \* per worker: where its handler stands
    req,         \* per worker: the request it serves
    loc,         \* per worker: the handler's local variables
    resp,        \* per worker: HTTP status (0 until sent) and the body built so far
    wrote,       \* per worker: fields of cnfStatus the request has written
    floor,       \* per worker: sentUptimes when its /status request arrived
    sentUptimes, \* the uptime_seconds values of the responses sent so far
    echoed,      \* key, value and reported value of every env_vars entry sent so far
    base,        \* the record as it was before the requests now being served
    verdicts     \* the scan_passed values of the scan responses sent so far

vars == <<variant, env, now, cnfStatus, pc, req, loc, resp, wrote, floor,
          sentUptimes, echoed, base, verdicts>>

Variants == {"v1", "v2", "v3"}

Paths == {"/health", "/ready", "/status", "/config", "/info", "/security",
          "/quality", "/scan", "/", "/unknown-path"}
Methods == {"GET", "POST"}
\* the methods requests to a path come with; only scanHandler looks at r.Method
MethodsOf(path) == IF path = "/scan" THEN Methods ELSE {"GET"}

EmptyMap == [x \in {} |-> 0]
NoRequest == [path |-> "", method |-> ""]
NoResponse == [code |-> 0, body |-> EmptyMap]

unknownNode == <<"u","n","k","n","o","w","n","-","n","o","d","e">>

\* init(): the record as built at process start; t0, t1, t2 are the three
\* readings of time.Now() that init makes (generateID, StartedAt, LastScan)
initStatus(v, e, t0, t1, t2) ==
    [ID          |-> <<"cnf-", Unix(t0)>>,
     Name        |-> "Simple-CNFSimulator",
     Version     |-> "1.0.0",
     Status      |-> "running",
     StartedAt   |-> t1,
     Environment |-> Getenv(e, ENVIRONMENT),
     K8sNode     |-> IF Getenv(e, KUBERNETES_NODE_NAME) = <<>> THEN unknownNode
                     ELSE Getenv(e, KUBERNETES_NODE_NAME),
     Security    |-> IF v = "v1"
                     THEN [ScanStatus |-> "", LastScan |-> 0,
                           Vulnerabilities |-> 0, SecurityRating |-> <<>>]
                     ELSE [ScanStatus |-> "completed", LastScan |-> Format(t2),
                           Vulnerabilities |-> 0, SecurityRating |-> <<"A">>]]

\* the patterns registered with http.HandleFunc besides "/"
Registered(v) ==
    {"/health", "/status", "/config", "/info"}
    \cup (IF v \in {"v2", "v3"} THEN {"/security", "/quality"} ELSE {})
    \cup (IF v = "v3" THEN {"/ready", "/scan"} ELSE {})

\* ServeMux: the handler of the exact pattern, or the catch-all "/"
Route(v, path) ==
    IF path \notin Registered(v) THEN "root"
    ELSE CASE path = "/health"   -> "health"
           [] path = "/ready"    -> "ready"
           [] path = "/status"   -> "status"
           [] path = "/config"   -> "config"
           [] path = "/info"     -> "info"
           [] path = "/quality"  -> "quality"
           [] path = "/scan"     -> "scan"
           [] path = "/security" -> IF v = "v3" THEN "security" ELSE "security_scanstatus"

----------------------------------------------------------------------------
(* Steps common to all handlers *)

Put(m, k, v) == (k :> v) @@ m

\* the worker moves on inside its handler
Goto(w, label) == pc' = [pc EXCEPT ![w] = label]

\* the handler adds fields to the response it is building
Build(w, fields) == resp' = [resp EXCEPT ![w].body = fields @@ @]

\* the handler adds fields to the "security" object of its response
BuildSecurity(w, fields) == resp' = [resp EXCEPT ![w].body.security = fields @@ @]

\* the handler sends its response with the given status and last fields
Respond(w, code, fields) ==
    /\ resp' = [resp EXCEPT ![w] = [code |-> code, body |-> fields @@ @.body]]
    /\ pc' = [pc EXCEPT ![w] = "done"]

\* the handler assigns to a field of cnfStatus other than Security
WriteField(w, f, v) ==
    /\ cnfStatus' = [cnfStatus EXCEPT ![f] = v]
    /\ wrote' = [wrote EXCEPT ![w] = @ \cup {f}]

\* the handler assigns to a field of cnfStatus.Security
WriteSecurity(w, f, v) ==
    /\ cnfStatus' = [cnfStatus EXCEPT !.Security[f] = v]
    /\ wrote' = [wrote EXCEPT ![w] = @ \cup {f}]

\* a request for one of the given paths arrives and the mux hands it to a
\* handler on a free goroutine
RequestTo(w, paths) ==
    /\ pc[w] = "idle"
    /\ \E path \in paths : \E method \in MethodsOf(path) :
          /\ req' = [req EXCEPT ![w] = [path |-> path, method |-> method]]
          /\ Goto(w, Route(variant, path))
          /\ floor' = [floor EXCEPT ![w] = IF path \in {"/status", "/"} THEN sentUptimes
                                            ELSE {}]
    /\ UNCHANGED <<variant, env, now, cnfStatus, loc, resp, wrote,
                   sentUptimes, echoed, base, verdicts>>

\* a request arrives, for any path
Request(w) == RequestTo(w, Paths)

\* the response has been delivered; the goroutine ends
Finish(w) ==
    /\ pc[w] = "done"
    /\ Goto(w, "idle")
    /\ req' = [req EXCEPT ![w] = NoRequest]
    /\ loc' = [loc EXCEPT ![w] = EmptyMap]
    /\ resp' = [resp EXCEPT ![w] = NoResponse]
    /\ wrote' = [wrote EXCEPT ![w] = {}]
    /\ floor' = [floor EXCEPT ![w] = {}]
    /\ UNCHANGED <<variant, env, now, cnfStatus, sentUptimes, echoed, base, verdicts>>

\* time passes
Tick ==
    /\ now < MaxClock
    /\ now' = now + 1
    /\ UNCHANGED <<variant, env, cnfStatus, pc, req, loc, resp, wrote, floor,
                   sentUptimes, echoed, base, verdicts>>

----------------------------------------------------------------------------
(* health, ready, info, quality *)

healthHandler(w) ==
    /\ pc[w] = "health"
    /\ IF variant = "v1"
       THEN Respond(w, 200, [status |-> "healthy", service |-> "cnf-simulator",
                             timestamp |-> Format(now)])
       ELSE /\ Build(w, [status |-> "healthy", service |-> "cnf-simulator",
                         timestamp |-> Format(now),
                         security_rating |-> cnfStatus.Security.SecurityRating])
            /\ Goto(w, "health_vulns")
    /\ UNCHANGED <<variant, env, now, cnfStatus, req, loc, wrote, floor,
                   sentUptimes, echoed, base, verdicts>>

\* health that degrades once vulnerabilities are known
healthVulnerabilitiesDegraded(w) ==
    /\ pc[w] = "health_vulns"
    /\ IF cnfStatus.Security.Vulnerabilities > 0
       THEN Respond(w, 503, [status |-> "unhealthy",
                             vulnerabilities |-> cnfStatus.Security.Vulnerabilities])
       ELSE Respond(w, 200, [vulnerabilities |-> cnfStatus.Security.Vulnerabilities])
    /\ UNCHANGED <<variant, env, now, cnfStatus, req, loc, wrote, floor,
                   sentUptimes, echoed, base, verdicts>>

healthVulnerabilities(w) ==
    /\ pc[w] = "health_vulns"
    /\ Respond(w, 200, [vulnerabilities |-> cnfStatus.Security.Vulnerabilities])
    /\ UNCHANGED <<variant, env, now, cnfStatus, req, loc, wrote, floor,
                   sentUptimes, echoed, base, verdicts>>

readyHandler(w) ==
    /\ pc[w] = "ready"
    /\ Respond(w, 200, [status |-> "ready", service |-> "cnf-simulator",
                        timestamp |-> Format(now), ready |-> TRUE])
    /\ UNCHANGED <<variant, env, now, cnfStatus, req, loc, wrote, floor,
                   sentUptimes, echoed, base, verdicts>>

\* the endpoint list of /info, by revision
infoEndpoints(v) ==
    CASE v = "v1" -> <<"/health", "/status", "/config", "/info">>
      [] v = "v2" -> <<"/health", "/status", "/config", "/info", "/security", "/quality">>
      [] v = "v3" -> <<"/health", "/ready", "/status", "/config", "/info", "/security",
                       "/quality", "/scan">>

infoHandler(w) ==
    /\ pc[w] = "info"
    /\ Respond(w, 200, [service |-> "Cloud-Native Network Function Simulator",
                        endpoints |-> infoEndpoints(variant),
                        version |-> "1.0.0",
                        author |-> "O-Cloud CNF Simulator"])
    /\ UNCHANGED <<variant, env, now, cnfStatus, req, loc, wrote, floor,
                   sentUptimes, echoed, base, verdicts>>

qualityHandler(w) ==
    /\ pc[w] = "quality"
    /\ Respond(w, 200, [code_coverage |-> 85,
                        test_results |-> <<"unit_tests", "integration_tests",
                                           "security_tests", "performance_tests">>])
    /\ UNCHANGED <<variant, env, now, cnfStatus, req, loc, wrote, floor,
                   sentUptimes, echoed, base, verdicts>>

----------------------------------------------------------------------------
(* status *)

\* the first assignment hitting the scan status instead of the status
statusHandlerWrongField(w) ==
    /\ pc[w] = "status"
    /\ WriteSecurity(w, "ScanStatus", "running")
    /\ Goto(w, IF variant = "v1" THEN "status_fields" ELSE "status_lastscan")
    /\ UNCHANGED <<variant, env, now, req, loc, resp, floor,
                   sentUptimes, echoed, base, verdicts>>

\* cnfStatus.Status = "running"
statusHandler(w) ==
    /\ pc[w] = "status"
    /\ WriteField(w, "Status", "running")
    /\ Goto(w, IF variant = "v1" THEN "status_fields" ELSE "status_lastscan")
    /\ UNCHANGED <<variant, env, now, req, loc, resp, floor,
                   sentUptimes, echoed, base, verdicts>>

\* the timestamp refresh hitting StartedAt as well
statusLastScanRestart(w) ==
    /\ pc[w] = "status_lastscan"
    /\ loc' = [loc EXCEPT ![w] = Put(@, "formatted", Format(now))]
    /\ cnfStatus' = [cnfStatus EXCEPT !.StartedAt = now, !.Security.LastScan = Format(now)]
    /\ wrote' = [wrote EXCEPT ![w] = @ \cup {"StartedAt", "LastScan"}]
    /\ Goto(w, "status_fields")
    /\ UNCHANGED <<variant, env, now, req, resp, floor, sentUptimes, echoed, base, verdicts>>

\* cnfStatus.Security.LastScan = time.Now().Format(time.RFC3339); the handler
\* holds the formatted time as a temporary while it assigns it
statusLastScan(w) ==
    /\ pc[w] = "status_lastscan"
    /\ loc' = [loc EXCEPT ![w] = Put(@, "formatted", Format(now))]
    /\ WriteSecurity(w, "LastScan", Format(now))
    /\ Goto(w, "status_fields")
    /\ UNCHANGED <<variant, env, now, req, resp, floor, sentUptimes, echoed, base, verdicts>>

\* the response fields up to current_time
statusFields(w) ==
    /\ pc[w] = "status_fields"
    /\ LET fields == [id           |-> cnfStatus.ID,
                      name         |-> cnfStatus.Name,
                      version      |-> cnfStatus.Version,
                      status       |-> cnfStatus.Status,
                      started_at   |-> Format(cnfStatus.StartedAt),
                      environment  |-> cnfStatus.Environment,
                      k8s_node     |-> cnfStatus.K8sNode,
                      current_time |-> Format(now)]
       IN  CASE variant = "v1" -> Respond(w, 200, fields)
             [] variant = "v2" -> Build(w, fields) /\ Goto(w, "status_scanstatus")
             [] variant = "v3" -> Build(w, fields) /\ Goto(w, "status_uptime")
    /\ UNCHANGED <<variant, env, now, cnfStatus, req, loc, wrote, floor,
                   sentUptimes, echoed, base, verdicts>>

\* "uptime_seconds": int(time.Since(cnfStatus.StartedAt).Seconds())
statusUptime(w) ==
    /\ pc[w] = "status_uptime"
    /\ Build(w, [uptime_seconds |-> UptimeSeconds(now, cnfStatus.StartedAt)])
    /\ Goto(w, "status_scanstatus")
    /\ UNCHANGED <<variant, env, now, cnfStatus, req, loc, wrote, floor,
                   sentUptimes, echoed, base, verdicts>>

\* "security": cnfStatus.Security copies the struct, one field after another
statusScanStatus(w) ==
    /\ pc[w] = "status_scanstatus"
    /\ Build(w, [security |-> [scan_status |-> cnfStatus.Security.ScanStatus]])
    /\ Goto(w, "status_seclastscan")
    /\ UNCHANGED <<variant, env, now, cnfStatus, req, loc, wrote, floor,
                   sentUptimes, echoed, base, verdicts>>

statusSecLastScan(w) ==
    /\ pc[w] = "status_seclastscan"
    /\ BuildSecurity(w, [last_scan |-> cnfStatus.Security.LastScan])
    /\ Goto(w, "status_vulns")
    /\ UNCHANGED <<variant, env, now, cnfStatus, req, loc, wrote, floor,
                   sentUptimes, echoed, base, verdicts>>

statusVulnerabilities(w) ==
    /\ pc[w] = "status_vulns"
    /\ BuildSecurity(w, [vulnerabilities |-> cnfStatus.Security.Vulnerabilities])
    /\ Goto(w, "status_rating")
    /\ UNCHANGED <<variant, env, now, cnfStatus, req, loc, wrote, floor,
                   sentUptimes, echoed, base, verdicts>>

statusRating(w) ==
    /\ pc[w] = "status_rating"
    /\ Respond(w, 200,
               [security |-> [security_rating |-> cnfStatus.Security.SecurityRating]
                             @@ resp[w].body.security]
               @@ (IF variant = "v3"
                   THEN [validation_passed |-> TRUE, ready_for_traffic |-> TRUE]
                   ELSE EmptyMap))
    /\ sentUptimes' = IF variant = "v3"
                      THEN sentUptimes \cup {resp[w].body.uptime_seconds}
                      ELSE sentUptimes
    /\ UNCHANGED <<variant, env, now, cnfStatus, req, loc, wrote, floor,
                   echoed, base, verdicts>>

\* the catch-all without its path test
rootHandlerAnyPath(w) ==
    /\ pc[w] = "root"
    /\ Goto(w, "status")
    /\ UNCHANGED <<variant, env, now, cnfStatus, req, loc, resp, wrote, floor,
                   sentUptimes, echoed, base, verdicts>>

\* the catch-all "/": status for the path "/" itself, not found otherwise
rootHandler(w) ==
    /\ pc[w] = "root"
    /\ IF req[w].path # "/"
       THEN Respond(w, 404, [text |-> "404 page not found"])
       ELSE Goto(w, "status") /\ UNCHANGED resp
    /\ UNCHANGED <<variant, env, now, cnfStatus, req, loc, wrote, floor,
                   sentUptimes, echoed, base, verdicts>>

----------------------------------------------------------------------------
(* config *)

\* the "config" block of /config
configBlock(e) ==
    [port            |-> Getenv(e, PORT),
     environment     |-> Getenv(e, ENVIRONMENT),
     kubernetes_node |-> Getenv(e, KUBERNETES_NODE_NAME)]

\* the env_vars map: v1 lists every variable as it is; v2 and v3 list the
\* variables prefixed APP_ or CNF_, each through maskSensitiveData
envVarsJSON(v, e) ==
    IF v = "v1" THEN e
    ELSE LET shown == {k \in DOMAIN e : \/ HasPrefix(k, <<"A","P","P","_">>)
                                        \/ HasPrefix(k, <<"C","N","F","_">>)}
         IN  [k \in shown |-> maskSensitiveData(k, e[k])]

configHandler(w) ==
    /\ pc[w] = "config"
    /\ Respond(w, 200, [config |-> configBlock(env),
                        env_vars |-> envVarsJSON(variant, env)])
    /\ echoed' = echoed \cup {[key |-> k, value |-> env[k],
                                reported |-> envVarsJSON(variant, env)[k]] :
                               k \in DOMAIN envVarsJSON(variant, env)}
    /\ UNCHANGED <<variant, env, now, cnfStatus, req, loc, wrote, floor,
                   sentUptimes, base, verdicts>>

----------------------------------------------------------------------------
(* security *)

\* checkSecurityThresholds, first test: the rating against the minimum
securityHandler(w) ==
    /\ pc[w] = "security"
    /\ LET minRating == Getenv(env, MINIMUM_SECURITY_RATING)
           rating    == cnfStatus.Security.SecurityRating
       IN  loc' = [loc EXCEPT ![w] = Put(@, "violations",
                     IF minRating # <<>> /\ StringGreater(rating, minRating)
                     THEN << [kind |-> "rating", rating |-> rating, min |-> minRating] >>
                     ELSE << >>)]
    /\ Goto(w, "security_maxvulns")
    /\ UNCHANGED <<variant, env, now, cnfStatus, req, resp, wrote, floor,
                   sentUptimes, echoed, base, verdicts>>

\* the count test with a non-strict comparison
securityMaxVulnsInclusive(w) ==
    /\ pc[w] = "security_maxvulns"
    /\ LET maxVulns == Getenv(env, MAX_VULNERABILITIES)
           parsed   == Atoi(maxVulns)
           count    == cnfStatus.Security.Vulnerabilities
       IN  loc' = [loc EXCEPT ![w] = Put(@, "violations",
                     IF maxVulns # <<>> /\ ~parsed.err /\ count >= parsed.val
                     THEN Append(@.violations,
                                 [kind |-> "vulnerabilities", count |-> count,
                                  max |-> parsed.val])
                     ELSE @.violations)]
    /\ Goto(w, "security_scanstatus")
    /\ UNCHANGED <<variant, env, now, cnfStatus, req, resp, wrote, floor,
                   sentUptimes, echoed, base, verdicts>>

\* checkSecurityThresholds, second test: the count against the maximum
securityMaxVulns(w) ==
    /\ pc[w] = "security_maxvulns"
    /\ LET maxVulns == Getenv(env, MAX_VULNERABILITIES)
           parsed   == Atoi(maxVulns)
           count    == cnfStatus.Security.Vulnerabilities
       IN  loc' = [loc EXCEPT ![w] = Put(@, "violations",
                     IF maxVulns # <<>> /\ ~parsed.err /\ count > parsed.val
                     THEN Append(@.violations,
                                 [kind |-> "vulnerabilities", count |-> count,
                                  max |-> parsed.val])
                     ELSE @.violations)]
    /\ Goto(w, "security_scanstatus")
    /\ UNCHANGED <<variant, env, now, cnfStatus, req, resp, wrote, floor,
                   sentUptimes, echoed, base, verdicts>>

securityScanStatus(w) ==
    /\ pc[w] = "security_scanstatus"
    /\ Build(w, [scan_status |-> cnfStatus.Security.ScanStatus])
    /\ Goto(w, "security_lastscan")
    /\ UNCHANGED <<variant, env, now, cnfStatus, req, loc, wrote, floor,
                   sentUptimes, echoed, base, verdicts>>

securityLastScan(w) ==
    /\ pc[w] = "security_lastscan"
    /\ Build(w, [last_scan |-> cnfStatus.Security.LastScan])
    /\ Goto(w, "security_vulns")
    /\ UNCHANGED <<variant, env, now, cnfStatus, req, loc, wrote, floor,
                   sentUptimes, echoed, base, verdicts>>

securityVulnerabilities(w) ==
    /\ pc[w] = "security_vulns"
    /\ Build(w, [vulnerabilities |-> cnfStatus.Security.Vulnerabilities])
    /\ Goto(w, "security_rating")
    /\ UNCHANGED <<variant, env, now, cnfStatus, req, loc, wrote, floor,
                   sentUptimes, echoed, base, verdicts>>

securityRating(w) ==
    /\ pc[w] = "security_rating"
    /\ Respond(w, 200,
               [security_rating |-> cnfStatus.Security.SecurityRating,
                security_policy |-> "strict",
                compliance      |-> "SOC2,ISO27001"]
               @@ (IF variant = "v3"
                   THEN [threshold_violations |-> loc[w].violations,
                         scan_enabled |->
                             Getenv(env, SECURITY_SCAN_ENABLED) = <<"t","r","u","e">>,
                         min_security_rating |-> Getenv(env, MINIMUM_SECURITY_RATING),
                         max_vulnerabilities |-> Getenv(env, MAX_VULNERABILITIES)]
                   ELSE EmptyMap))
    /\ UNCHANGED <<variant, env, now, cnfStatus, req, loc, wrote, floor,
                   sentUptimes, echoed, base, verdicts>>

----------------------------------------------------------------------------
(* scan *)

\* the count a simulated scan finds
SimulatedVulnerabilities == 3
\* the maximum that applies when MAX_VULNERABILITIES gives none
DefaultMaxVulns == 5

\* the if-chain with its second threshold one too high
ratingForLoose(n) ==
    IF n = 0 THEN <<"A">>
    ELSE IF n <= 3 THEN <<"B">>
    ELSE IF n <= 5 THEN <<"C">>
    ELSE <<"D">>

\* the rating for a vulnerability count
ratingFor(n) ==
    IF n = 0 THEN <<"A">>
    ELSE IF n <= 2 THEN <<"B">>
    ELSE IF n <= 5 THEN <<"C">>
    ELSE <<"D">>

\* the maximum with a default of zero
effectiveMaxVulnsNoDefault(e) ==
    LET maxVulnsStr == Getenv(e, MAX_VULNERABILITIES)
    IN  IF maxVulnsStr # <<>> /\ ~Atoi(maxVulnsStr).err
        THEN Atoi(maxVulnsStr).val
        ELSE 0

\* the maximum the scan verdict uses
effectiveMaxVulns(e) ==
    LET maxVulnsStr == Getenv(e, MAX_VULNERABILITIES)
    IN  IF maxVulnsStr # <<>> /\ ~Atoi(maxVulnsStr).err
        THEN Atoi(maxVulnsStr).val
        ELSE DefaultMaxVulns

\* the scan without its method check
scanHandlerAnyMethod(w) ==
    /\ pc[w] = "scan"
    /\ loc' = [loc EXCEPT ![w] = Put(@, "scanStartTime", now)]
    /\ Goto(w, "scan_lastscan")
    /\ UNCHANGED <<variant, env, now, cnfStatus, req, resp, wrote, floor,
                   sentUptimes, echoed, base, verdicts>>

\* the method check, then scanStartTime := time.Now()
scanHandler(w) ==
    /\ pc[w] = "scan"
    /\ IF req[w].method # "POST"
       THEN Respond(w, 405, [text |-> "Method not allowed"]) /\ UNCHANGED loc
       ELSE /\ loc' = [loc EXCEPT ![w] = Put(@, "scanStartTime", now)]
            /\ Goto(w, "scan_lastscan")
            /\ UNCHANGED resp
    /\ UNCHANGED <<variant, env, now, cnfStatus, req, wrote, floor,
                   sentUptimes, echoed, base, verdicts>>

\* the scan's timestamp write waiting until no other handler is at lastScan
scanLastScanLocked(w) ==
    /\ pc[w] = "scan_lastscan"
    /\ \A u \in Workers \ {w} :
          pc[u] \notin {"status_lastscan", "status_seclastscan", "scan_lastscan",
                        "security_lastscan"}
    /\ WriteSecurity(w, "LastScan", Format(loc[w].scanStartTime))
    /\ Goto(w, "scan_scanstatus")
    /\ UNCHANGED <<variant, env, now, req, loc, resp, floor,
                   sentUptimes, echoed, base, verdicts>>

scanLastScan(w) ==
    /\ pc[w] = "scan_lastscan"
    /\ WriteSecurity(w, "LastScan", Format(loc[w].scanStartTime))
    /\ Goto(w, "scan_scanstatus")
    /\ UNCHANGED <<variant, env, now, req, loc, resp, floor,
                   sentUptimes, echoed, base, verdicts>>

scanScanStatus(w) ==
    /\ pc[w] = "scan_scanstatus"
    /\ WriteSecurity(w, "ScanStatus", "completed")
    /\ Goto(w, "scan_vulns")
    /\ UNCHANGED <<variant, env, now, req, loc, resp, floor,
                   sentUptimes, echoed, base, verdicts>>

\* a scan that adds its findings to the count already stored
scanVulnerabilitiesAccumulate(w) ==
    /\ pc[w] = "scan_vulns"
    /\ WriteSecurity(w, "Vulnerabilities",
                     cnfStatus.Security.Vulnerabilities + SimulatedVulnerabilities)
    /\ Goto(w, "scan_rate")
    /\ UNCHANGED <<variant, env, now, req, loc, resp, floor,
                   sentUptimes, echoed, base, verdicts>>

scanVulnerabilities(w) ==
    /\ pc[w] = "scan_vulns"
    /\ WriteSecurity(w, "Vulnerabilities", SimulatedVulnerabilities)
    /\ Goto(w, "scan_rate")
    /\ UNCHANGED <<variant, env, now, req, loc, resp, floor,
                   sentUptimes, echoed, base, verdicts>>

\* the if-chain that derives the rating from the stored count
scanRate(w) ==
    /\ pc[w] = "scan_rate"
    /\ WriteSecurity(w, "SecurityRating", ratingFor(cnfStatus.Security.Vulnerabilities))
    /\ Goto(w, "scan_found")
    /\ UNCHANGED <<variant, env, now, req, loc, resp, floor,
                   sentUptimes, echoed, base, verdicts>>

\* maxVulns, and the report's fields up to vulnerabilities_found
scanFound(w) ==
    /\ pc[w] = "scan_found"
    /\ loc' = [loc EXCEPT ![w] = Put(@, "maxVulns", effectiveMaxVulns(env))]
    /\ Build(w, [status         |-> "success",
                 scan_id        |-> <<"scan-", Unix(now)>>,
                 scan_started   |-> Format(loc[w].scanStartTime),
                 scan_completed |-> Format(now),
                 duration_ms    |-> now - loc[w].scanStartTime,
                 vulnerabilities_found |-> cnfStatus.Security.Vulnerabilities])
    /\ Goto(w, "scan_rating")
    /\ UNCHANGED <<variant, env, now, cnfStatus, req, wrote, floor,
                   sentUptimes, echoed, base, verdicts>>

scanRating(w) ==
    /\ pc[w] = "scan_rating"
    /\ Build(w, [security_rating |-> cnfStatus.Security.SecurityRating])
    /\ Goto(w, "scan_passed")
    /\ UNCHANGED <<variant, env, now, cnfStatus, req, loc, wrote, floor,
                   sentUptimes, echoed, base, verdicts>>

\* the verdict with a strict comparison
scanPassedStrict(w) ==
    /\ pc[w] = "scan_passed"
    /\ LET passed == cnfStatus.Security.Vulnerabilities < loc[w].maxVulns
       IN  /\ Respond(w, 200,
                      [max_allowed_vulns |-> loc[w].maxVulns,
                       scan_passed |-> passed,
                       message     |-> <<"Security scan completed with",
                                         cnfStatus.Security.Vulnerabilities,
                                         "vulnerabilities found">>])
           /\ verdicts' = verdicts \cup {passed}
    /\ UNCHANGED <<variant, env, now, cnfStatus, req, loc, wrote, floor,
                   sentUptimes, echoed, base>>

scanPassed(w) ==
    /\ pc[w] = "scan_passed"
    /\ LET passed == cnfStatus.Security.Vulnerabilities <= loc[w].maxVulns
       IN  /\ Respond(w, 200,
                      [max_allowed_vulns |-> loc[w].maxVulns,
                       scan_passed |-> passed,
                       message     |-> <<"Security scan completed with",
                                         cnfStatus.Security.Vulnerabilities,
                                         "vulnerabilities found">>])
           /\ verdicts' = verdicts \cup {passed}
    /\ UNCHANGED <<variant, env, now, cnfStatus, req, loc, wrote, floor,
                   sentUptimes, echoed, base>>

----------------------------------------------------------------------------
(* Specification *)

\* every way to set some of the keys to some of the values
Settings(keys, values) == UNION {[d -> values] : d \in SUBSET keys}

\* the process starts in revision v with environment e; init() has run and
\* has taken up to skew ticks
Start(v, e, skew) ==
    /\ variant = v
    /\ env = e
    /\ \E t0 \in 0..skew : \E t1 \in t0..skew : \E t2 \in t1..skew :
          /\ now = t2
          /\ cnfStatus = initStatus(v, e, t0, t1, t2)
    /\ pc = [w \in Workers |-> "idle"]
    /\ req = [w \in Workers |-> NoRequest]
    /\ loc = [w \in Workers |-> EmptyMap]
    /\ resp = [w \in Workers |-> NoResponse]
    /\ wrote = [w \in Workers |-> {}]
    /\ floor = [w \in Workers |-> {}]
    /\ sentUptimes = {}
    /\ echoed = {}
    /\ base = cnfStatus
    /\ verdicts = {}

\* the environments of the concurrent specification: nothing set, and a
\* deployment with thresholds, a secret and a node name
BaseEnv ==
    (MAX_VULNERABILITIES :> <<"2">>) @@ (MINIMUM_SECURITY_RATING :> <<"A">>)
    @@ (APP_SECRET :> <<"a">>) @@ (APP_NAME :> <<"a">>) @@ (DB_PASSWORD :> <<"b">>)
    @@ (KUBERNETES_NODE_NAME :> <<"b">>)

ConcurrentEnvs == {EmptyMap, BaseEnv}

\* the environments of the serial specification: up to MaxEnvVars of the
\* echoed variables set, or the two thresholds set
EchoEnvs ==
    {e \in Settings(EchoKeys, EchoValues) : Cardinality(DOMAIN e) <= MaxEnvVars}

ThresholdEnvs ==
    {a @@ b : a \in Settings({MAX_VULNERABILITIES}, MaxVulnValues),
              b \in Settings({MINIMUM_SECURITY_RATING}, MinRatingValues)}

SerialEnvs == EchoEnvs \cup ThresholdEnvs

Init == \E v \in Variants : \E e \in ConcurrentEnvs : Start(v, e, MaxInitSkew)

InitSerial == \E v \in Variants : \E e \in SerialEnvs : Start(v, e, 0)

Handle(w) ==
    \/ healthHandler(w) \/ healthVulnerabilities(w)
    \/ readyHandler(w) \/ infoHandler(w) \/ qualityHandler(w)
    \/ statusHandler(w) \/ statusLastScan(w) \/ statusFields(w) \/ statusUptime(w)
    \/ statusScanStatus(w) \/ statusSecLastScan(w) \/ statusVulnerabilities(w)
    \/ statusRating(w)
    \/ rootHandler(w)
    \/ configHandler(w)
    \/ securityHandler(w) \/ securityMaxVulns(w) \/ securityScanStatus(w)
    \/ securityLastScan(w) \/ securityVulnerabilities(w) \/ securityRating(w)
    \/ scanHandler(w) \/ scanLastScan(w) \/ scanScanStatus(w) \/ scanVulnerabilities(w)
    \/ scanRate(w) \/ scanFound(w) \/ scanRating(w) \/ scanPassed(w)

\* requests are served as they come, each on its own goroutine
Next ==
    \/ Tick
    \/ \E w \in Workers : Request(w) \/ Handle(w) \/ Finish(w)

\* a client that sends one request at a time
NextSerial ==
    \/ Tick
    \/ Request(1) \/ Handle(1) \/ Finish(1)

\* the paths whose handlers assign to the record
MutatingPaths == {"/status", "/", "/scan"}

\* the steps of the handlers those paths reach
HandleMutating(w) ==
    \/ rootHandler(w)
    \/ statusHandler(w) \/ statusLastScan(w) \/ statusFields(w) \/ statusUptime(w)
    \/ statusScanStatus(w) \/ statusSecLastScan(w) \/ statusVulnerabilities(w)
    \/ statusRating(w)
    \/ scanHandler(w) \/ scanLastScan(w) \/ scanScanStatus(w) \/ scanVulnerabilities(w)
    \/ scanRate(w) \/ scanFound(w) \/ scanRating(w) \/ scanPassed(w)

\* every request in flight has been answered: the goroutines end, and the record
\* they leave is what the next requests find
Settle ==
    /\ \A w \in Workers : pc[w] \in {"idle", "done"}
    /\ \E w \in Workers : pc[w] = "done"
    /\ pc' = [w \in Workers |-> "idle"]
    /\ req' = [w \in Workers |-> NoRequest]
    /\ loc' = [w \in Workers |-> EmptyMap]
    /\ resp' = [w \in Workers |-> NoResponse]
    /\ wrote' = [w \in Workers |-> {}]
    /\ floor' = [w \in Workers |-> {}]
    /\ base' = cnfStatus
    /\ UNCHANGED <<variant, env, now, cnfStatus, sentUptimes, echoed, verdicts>>

\* clients that send mutating requests in rounds: at most one request per
\* goroutine at a time, overlapping in any way, and the next round once all of
\* a round are answered
NextOverlap ==
    \/ Tick
    \/ Settle
    \/ \E w \in Workers : RequestTo(w, MutatingPaths) \/ HandleMutating(w)

Spec == Init /\ [][Next]_vars

SpecOverlap == Init /\ [][NextOverlap]_vars

SpecSerial == InitSerial /\ [][NextSerial]_vars

----------------------------------------------------------------------------
(* Properties *)

Done(w) == pc[w] = "done"
Served(w, path) == Done(w) /\ req[w].path = path

\* a key that contains PASSWORD, SECRET, TOKEN, KEY or AUTH in any letter case
SensitiveKey(k) ==
    \E word \in { <<"P","A","S","S","W","O","R","D">>, <<"S","E","C","R","E","T">>,
                  <<"T","O","K","E","N">>, <<"K","E","Y">>, <<"A","U","T","H">> } :
        Contains(ToUpper(k), word)

\* the sensitive ones among the keys a process may be started with
SensitiveEnvKeys ==
    {k \in EchoKeys \cup {PORT, ENVIRONMENT, KUBERNETES_NODE_NAME, SECURITY_SCAN_ENABLED,
                          MINIMUM_SECURITY_RATING, MAX_VULNERABILITIES} : SensitiveKey(k)}

\* a key that starts with APP_ or CNF_
PrefixedKey(k) ==
    HasPrefix(k, <<"A","P","P","_">>) \/ HasPrefix(k, <<"C","N","F","_">>)

\* a reported value that is a masked token
IsMasked(x) == Len(x) = 3 /\ x[1] = "[MASKED:" /\ x[3] = "]"

\* C1: every response to /health, in every revision and whatever the record
\* holds, has HTTP status 200 and the status field "healthy".
C1_HealthAlwaysHealthy ==
    \A w \in Workers :
        Served(w, "/health") => resp[w].code = 200 /\ resp[w].body.status = "healthy"

\* a /health response sent after a scan has set three vulnerabilities and rating C
C1_Witness ==
    \E w \in Workers :
        /\ variant = "v3"
        /\ Served(w, "/health")
        /\ resp[w].body.vulnerabilities = 3
        /\ resp[w].body.security_rating = <<"C">>

\* C2: no /config response reports the raw value of a variable with a sensitive
\* key: what it reports for such a key is a masked token, not the value.
C2_SensitiveNeverRaw ==
    \A w \in Workers :
        Served(w, "/config") =>
            \A k \in DOMAIN resp[w].body.env_vars :
                k \in SensitiveEnvKeys =>
                    /\ IsMasked(resp[w].body.env_vars[k])
                    /\ resp[w].body.env_vars[k] # env[k]

\* C3: the env_vars map of a /config response has exactly the variables whose
\* key starts with APP_ or CNF_, each with its value as maskSensitiveData gives it.
C3_ExactlyPrefixedVars ==
    \A w \in Workers :
        Served(w, "/config") =>
            /\ DOMAIN resp[w].body.env_vars = {k \in DOMAIN env : PrefixedKey(k)}
            /\ \A k \in DOMAIN resp[w].body.env_vars :
                  resp[w].body.env_vars[k] = maskSensitiveData(k, env[k])

\* the maximum C4 speaks of: the variable's integer, or 5 when it is unset or
\* does not parse
C4_EffectiveMaximum ==
    IF MAX_VULNERABILITIES \notin DOMAIN env \/ Atoi(env[MAX_VULNERABILITIES]).err
    THEN 5
    ELSE Atoi(env[MAX_VULNERABILITIES]).val

\* C4: the scan_passed of every POST /scan response equals
\* (3 <= effective maximum), whatever was requested before.
C4_ScanVerdict ==
    \A w \in Workers :
        (variant = "v3" /\ Served(w, "/scan") /\ req[w].method = "POST") =>
            resp[w].body.scan_passed = (3 <= C4_EffectiveMaximum)

\* a failed scan: MAX_VULNERABILITIES is an integer below three
C4_Witness ==
    \E w \in Workers :
        /\ variant = "v3" /\ Served(w, "/scan") /\ req[w].method = "POST"
        /\ MAX_VULNERABILITIES \in DOMAIN env
        /\ ~Atoi(env[MAX_VULNERABILITIES]).err
        /\ resp[w].body.scan_passed = FALSE
        /\ resp[w].body.max_allowed_vulns < 3

\* C5: in the revision that has the scan endpoint, a request to /scan with a
\* method other than POST is answered 405 and writes no field of the record.
C5_WrongMethodRejected ==
    \A w \in Workers :
        (variant = "v3" /\ req[w].path = "/scan" /\ req[w].method # "POST") =>
            /\ pc[w] \in {"scan", "done"}
            /\ wrote[w] = {}
            /\ Done(w) => resp[w].code = 405

\* a GET /scan answered 405 while the record already holds a scan's results
C5_Witness ==
    \E w \in Workers :
        /\ variant = "v3" /\ Served(w, "/scan") /\ req[w].method = "GET"
        /\ resp[w].code = 405
        /\ cnfStatus.Security.Vulnerabilities = 3

\* C6: a request the catch-all serves for the path "/" is answered as a /status
\* request is (same status code, same response fields, same fields of the record
\* written); for any other path it is answered 404, never reaches the status
\* handler and writes nothing.
C6_CatchAll ==
    \A w \in Workers :
        (pc[w] # "idle" /\ req[w].path \notin Registered(variant)) =>
            IF req[w].path = "/"
            THEN Done(w) =>
                    /\ resp[w].code = 200
                    /\ \A u \in Workers :
                          Served(u, "/status") =>
                              /\ resp[u].code = resp[w].code
                              /\ DOMAIN resp[u].body = DOMAIN resp[w].body
                              /\ resp[u].body.status = resp[w].body.status
                              /\ wrote[u] = wrote[w]
            ELSE /\ pc[w] \in {"root", "done"}
                 /\ wrote[w] = {}
                 /\ Done(w) => resp[w].code = 404 /\ "status" \notin DOMAIN resp[w].body

\* a "/" response and a /status response side by side, both having written
C6_Witness ==
    \E w, u \in Workers :
        /\ Served(w, "/") /\ Served(u, "/status")
        /\ resp[w].code = 200
        /\ wrote[w] # {}
        /\ wrote[u] = wrote[w]

\* C7: a /status response never reports a smaller uptime_seconds than a /status
\* response that had been sent before its request arrived.
C7_UptimeMonotonic ==
    \A w \in Workers :
        (Done(w) /\ "uptime_seconds" \in DOMAIN resp[w].body) =>
            \A earlier \in floor[w] : resp[w].body.uptime_seconds >= earlier

\* a /status response that reports a larger uptime than an earlier one
C7_Witness ==
    \E w \in Workers :
        /\ Done(w) /\ "uptime_seconds" \in DOMAIN resp[w].body
        /\ \E earlier \in floor[w] : resp[w].body.uptime_seconds > earlier

\* C8: no step of any handler changes the id or the startedAt of the record.
C8_IdAndStartedAtImmutable ==
    [][cnfStatus'.ID = cnfStatus.ID /\ cnfStatus'.StartedAt = cnfStatus.StartedAt]_vars

\* status and scan have both written the record, after the start time
C8_Witness ==
    \E w, u \in Workers :
        /\ Done(w) /\ "Status" \in wrote[w]
        /\ Done(u) /\ "SecurityRating" \in wrote[u]
        /\ now > cnfStatus.StartedAt

\* C9: whatever the record holds and whenever /config is asked, maskSensitiveData
\* has reported the same token for equal values under sensitive keys, whichever
\* the keys, and the value itself under any other key.
C9_MaskDeterministic ==
    variant # "v1" =>
        /\ \A s, t \in echoed :
              (s.key \in SensitiveEnvKeys /\ t.key \in SensitiveEnvKeys
               /\ s.value = t.value) => s.reported = t.reported
        /\ \A t \in echoed : t.key \notin SensitiveEnvKeys => t.reported = t.value

\* two sensitive keys with the same value echoed, after a scan changed the record
C9_Witness ==
    /\ variant = "v3"
    /\ cnfStatus.Security.SecurityRating = <<"C">>
    /\ \E s, t \in echoed :
          /\ s.key # t.key /\ s.value = t.value
          /\ s.key \in SensitiveEnvKeys /\ t.key \in SensitiveEnvKeys
          /\ IsMasked(s.reported)

\* C10, as claimed: a step of a handler other than scan changes none of the
\* four security fields.
C10_OnlyScanMutatesSecurity ==
    [][\A w \in Workers :
          (pc'[w] # pc[w] /\ req[w].path # "/scan") =>
              cnfStatus'.Security = cnfStatus.Security]_vars

\* C10, amended: scanStatus, vulnerabilities and securityRating are changed by
\* the scan handler only; lastScan is changed by scan and by status (reached
\* as /status or as /) only.
C10_SecurityWriters ==
    [][\A w \in Workers :
          (pc'[w] # pc[w] /\ req[w].path # "/scan") =>
              /\ cnfStatus'.Security.ScanStatus = cnfStatus.Security.ScanStatus
              /\ cnfStatus'.Security.Vulnerabilities = cnfStatus.Security.Vulnerabilities
              /\ cnfStatus'.Security.SecurityRating = cnfStatus.Security.SecurityRating
              /\ req[w].path \notin {"/status", "/"} =>
                    cnfStatus'.Security.LastScan = cnfStatus.Security.LastScan]_vars

\* a status request has moved lastScan on after a scan had set it
C10_Witness ==
    \E w \in Workers :
        /\ req[w].path \in {"/status", "/"}
        /\ "LastScan" \in wrote[w]
        /\ cnfStatus.Security.Vulnerabilities = 3
        /\ cnfStatus.Security.LastScan > 0

\* the rating the thresholds give a count: 0 -> A, up to 2 -> B, up to 5 -> C,
\* above -> D
C11_RatingByThresholds(n) ==
    CASE n = 0       -> <<"A">>
      [] n \in 1..2  -> <<"B">>
      [] n \in 3..5  -> <<"C">>
      [] OTHER       -> <<"D">>

\* C11: when a POST /scan that ran with no other handler beside it has sent its
\* response, the record holds three vulnerabilities, scan status "completed" and
\* the rating the thresholds give that count, which is C; the response reports
\* the record's count and rating.
C11_ScanOutcome ==
    \A w \in Workers :
        (variant = "v3" /\ Served(w, "/scan") /\ req[w].method = "POST") =>
            /\ cnfStatus.Security.Vulnerabilities = 3
            /\ cnfStatus.Security.ScanStatus = "completed"
            /\ cnfStatus.Security.SecurityRating =
                   C11_RatingByThresholds(cnfStatus.Security.Vulnerabilities)
            /\ cnfStatus.Security.SecurityRating = <<"C">>
            /\ resp[w].code = 200
            /\ resp[w].body.vulnerabilities_found = cnfStatus.Security.Vulnerabilities
            /\ resp[w].body.security_rating = cnfStatus.Security.SecurityRating

\* a completed scan that has written all four security fields of the record
C11_Witness ==
    \E w \in Workers :
        /\ variant = "v3" /\ Served(w, "/scan") /\ req[w].method = "POST"
        /\ wrote[w] = {"LastScan", "ScanStatus", "Vulnerabilities", "SecurityRating"}
        /\ resp[w].body.vulnerabilities_found = 3
        /\ resp[w].body.security_rating = <<"C">>

\* a is lexicographically greater than b: at the first position where they
\* differ a has the greater character, or b ends there
C12_LexGreater(a, b) ==
    \E i \in 1..Len(a) :
        /\ \A j \in 1..(i - 1) : j <= Len(b) /\ a[j] = b[j]
        /\ i > Len(b) \/ CharCode(a[i]) > CharCode(b[i])

\* the request's checkSecurityThresholds has returned its list
C12_Checked(w) ==
    /\ variant = "v3" /\ req[w].path = "/security"
    /\ pc[w] \notin {"security", "security_maxvulns"}

\* the list holds a violation of the given kind
C12_Has(list, kind) == \E i \in 1..Len(list) : list[i].kind = kind

\* C12: checkSecurityThresholds writes no field of the record, and the list it
\* returns holds a rating violation exactly when MINIMUM_SECURITY_RATING is not
\* empty and the record's rating is lexicographically greater than it, a
\* vulnerability violation exactly when MAX_VULNERABILITIES is set, parses as an
\* integer and the record's count is greater than that integer, and nothing else.
C12_ThresholdViolations ==
    \A w \in Workers :
        C12_Checked(w) =>
            LET list == loc[w].violations
                min  == Getenv(env, MINIMUM_SECURITY_RATING)
            IN  /\ wrote[w] = {}
                /\ C12_Has(list, "rating") <=>
                      (min # <<>> /\ C12_LexGreater(cnfStatus.Security.SecurityRating, min))
                /\ C12_Has(list, "vulnerabilities") <=>
                      /\ MAX_VULNERABILITIES \in DOMAIN env
                      /\ ~Atoi(env[MAX_VULNERABILITIES]).err
                      /\ cnfStatus.Security.Vulnerabilities >
                             Atoi(env[MAX_VULNERABILITIES]).val
                /\ Len(list) = (IF C12_Has(list, "rating") THEN 1 ELSE 0)
                               + (IF C12_Has(list, "vulnerabilities") THEN 1 ELSE 0)
                /\ Done(w) => resp[w].body.threshold_violations = list

\* a /security response that lists both violations: rating C under a minimum
\* of more than one character, three vulnerabilities over a maximum of two
C12_Witness ==
    \E w \in Workers :
        /\ C12_Checked(w) /\ Done(w)
        /\ Len(resp[w].body.threshold_violations) = 2
        /\ Len(Getenv(env, MINIMUM_SECURITY_RATING)) > 1
        /\ cnfStatus.Security.Vulnerabilities = 3

\* C13: a /status response (in the revisions whose record has a security part)
\* has the status "running" and the security.last_scan its own request wrote,
\* which is the time of that request, and the request has written the fields
\* status and lastScan of the record and no other.
C13_StatusRefresh ==
    \A w \in Workers :
        (variant # "v1" /\ Served(w, "/status")) =>
            /\ resp[w].body.status = "running"
            /\ resp[w].body.security.last_scan = loc[w].formatted
            /\ wrote[w] = {"Status", "LastScan"}

\* the mutable fields a handler's next step assigns, by where it stands
C14_Writes(label) ==
    CASE label = "status"                             -> {"Status"}
      [] label \in {"status_lastscan", "scan_lastscan"} -> {"LastScan"}
      [] label = "scan_scanstatus"                    -> {"ScanStatus"}
      [] label = "scan_vulns"                         -> {"Vulnerabilities"}
      [] label = "scan_rate"                          -> {"SecurityRating"}
      [] OTHER                                        -> {}

\* the mutable fields a handler's next step reads, by where it stands
C14_Reads(label) ==
    CASE label = "status_fields"                           -> {"Status"}
      [] label \in {"status_scanstatus", "security_scanstatus"} -> {"ScanStatus"}
      [] label \in {"status_seclastscan", "security_lastscan"}  -> {"LastScan"}
      [] label \in {"status_vulns", "security_vulns", "security_maxvulns",
                    "health_vulns", "scan_rate", "scan_found", "scan_passed"}
                                                           -> {"Vulnerabilities"}
      [] label \in {"status_rating", "security_rating", "security", "scan_rating"}
                                                           -> {"SecurityRating"}
      [] label = "health" /\ variant # "v1"                -> {"SecurityRating"}
      [] OTHER                                             -> {}

\* w is about to write a mutable field that u is about to read or write
C14_Conflict(w, u) ==
    /\ w # u
    /\ C14_Writes(pc[w]) \cap (C14_Reads(pc[u]) \cup C14_Writes(pc[u])) # {}

\* C14: nothing orders two handlers' accesses to the same mutable field: when
\* one handler is about to write a field (in statusHandler or scanHandler) that
\* another is about to read or write, either of the two can take its step next.
C14_NoOrdering ==
    \A w, u \in Workers :
        C14_Conflict(w, u) => ENABLED Handle(w) /\ ENABLED Handle(u)

\* a scan about to write lastScan while a /status request is about to write it
\* too, and the two would write different values
C14_Witness ==
    \E w, u \in Workers :
        /\ variant = "v3" /\ C14_Conflict(w, u)
        /\ pc[w] = "scan_lastscan" /\ pc[u] = "status_lastscan"
        /\ Format(loc[w].scanStartTime) # Format(now)

\* the worker has answered a request whose handler assigned to the record
C15_Mutated(w) ==
    Done(w) /\ resp[w].code = 200 /\ req[w].path \in MutatingPaths

C15_Kind(w) == IF req[w].path = "/scan" THEN "scan" ELSE "status"

\* the clock value the request took, as formatted: the scan's start time, or
\* the time of the status refresh
C15_Time(w) ==
    IF C15_Kind(w) = "scan" THEN Format(loc[w].scanStartTime)
    ELSE IF variant = "v1" THEN 0
    ELSE loc[w].formatted

\* the record a handler of the given kind leaves when it runs alone on rec at
\* clock value t: an overwrite of scalar fields with values that do not depend
\* on rec
C15_Alone(rec, kind, t) ==
    IF kind = "scan"
    THEN [rec EXCEPT !.Security = [ScanStatus |-> "completed", LastScan |-> t,
                                   Vulnerabilities |-> 3, SecurityRating |-> <<"C">>]]
    ELSE IF variant = "v1"
    THEN [rec EXCEPT !.Status = "running"]
    ELSE [rec EXCEPT !.Status = "running", !.Security.LastScan = t]

\* the record after the workers' requests have run one after another in the
\* given order, starting from rec
RECURSIVE C15_Sequential(_, _)
C15_Sequential(rec, order) ==
    IF order = << >> THEN rec
    ELSE C15_Sequential(C15_Alone(rec, C15_Kind(Head(order)), C15_Time(Head(order))),
                        Tail(order))

\* the orders in which the workers of a set can go
C15_Orders(D) ==
    {order \in [1..Cardinality(D) -> D] :
        \A i, j \in 1..Cardinality(D) : order[i] = order[j] => i = j}

\* C15: when the /status and POST /scan requests of a round have all been
\* answered, however their handlers overlapped, the record is the one that some
\* sequential execution of the same requests (each with the clock value it
\* took) leaves; and when the requests are the same handler at the same clock
\* value, the record is the one a single execution of it leaves.
C15_IdempotentSerialisable ==
    LET D == {w \in Workers : C15_Mutated(w)}
    IN  (D # {} /\ \A w \in Workers : pc[w] \in {"idle", "done"}) =>
            /\ \E order \in C15_Orders(D) : cnfStatus = C15_Sequential(base, order)
            /\ \A w \in D :
                  (\A u \in D : C15_Kind(u) = C15_Kind(w) /\ C15_Time(u) = C15_Time(w))
                      => cnfStatus = C15_Alone(base, C15_Kind(w), C15_Time(w))

\* a scan and a status request that overlapped: the scan took its clock value
\* first and wrote it last, so the record ends with the earlier of the two times
C15_Witness ==
    \E w, u \in Workers :
        /\ variant = "v3" /\ C15_Mutated(w) /\ C15_Mutated(u)
        /\ C15_Kind(w) = "scan" /\ C15_Kind(u) = "status"
        /\ C15_Time(w) < C15_Time(u)
        /\ cnfStatus.Security.LastScan = C15_Time(w)
        /\ cnfStatus # base

\* C16: every /health and every /security response (in the revisions that
\* report them) carries a vulnerabilities count and a security rating that
\* belong together: zero with A, or three with C.
C16_ConsistentPair ==
    \A w \in Workers :
        (variant # "v1" /\ (Served(w, "/health") \/ Served(w, "/security"))) =>
            \/ resp[w].body.vulnerabilities = 0 /\ resp[w].body.security_rating = <<"A">>
            \/ resp[w].body.vulnerabilities = 3 /\ resp[w].body.security_rating = <<"C">>

\* C17: with a clock that never goes back, no step of any handler replaces the
\* record's lastScan with an earlier time than the one it held.
C17_LastScanMonotonic ==
    [][cnfStatus'.Security.LastScan >= cnfStatus.Security.LastScan]_vars

\* C18: a /security response sent after POST /scan responses, with requests
\* served one at a time, lists no vulnerabilities-count violation exactly when
\* those scans reported scan_passed = true, whatever MAX_VULNERABILITIES is.
C18_VerdictAgrees ==
    \A w \in Workers :
        (variant = "v3" /\ Served(w, "/security")) =>
            \A passed \in verdicts :
                passed <=> ~C12_Has(resp[w].body.threshold_violations, "vulnerabilities")

\* a /security response that lists the count violation after a failed scan
C18_Witness ==
    \E w \in Workers :
        /\ variant = "v3" /\ Served(w, "/security")
        /\ verdicts = {FALSE}
        /\ C12_Has(resp[w].body.threshold_violations, "vulnerabilities")

====
